---------------------------- MODULE Spec2Model ----------------------------
(***************************************************************************)
(* The derived-state pipeline of the DataTable component of HW1/challenge2 *)
(* (filter -> sort -> paginate), in its three implementations:             *)
(*   v2  HW1/challenge2/v2-results/DataTable.tsx                           *)
(*   v3  HW1/challenge2/v3-results/DataTable.tsx                           *)
(*   v4  HW1/challenge2/v4-results/src/components/DataTable.tsx            *)
(* React state (useState) is the state of the machine; the useMemo values  *)
(* are operators over it; every event handler is one action.               *)
(*                                                                         *)
(* A JavaScript string is the sequence of its UTF-16 code units; a field   *)
(* value is a record tagged with its JavaScript type.                      *)
(***************************************************************************)
EXTENDS Integers, Sequences, FiniteSets, TLC

-----------------------------------------------------------------------------
(* Field values *)

Str(s) == [t |-> "str", s |-> s, n |-> 0]
Num(n) == [t |-> "num", s |-> <<>>, n |-> n]
Null == [t |-> "null", s |-> <<>>, n |-> 0]
Undefined == [t |-> "undef", s |-> <<>>, n |-> 0]

\* value === null || value === undefined   (v3), value == null (v2, v4)
IsNullish(v) == v.t \in {"null", "undef"}

\* a === b on field values
StrictEquals(a, b) ==
    /\ a.t = b.t
    /\ a.t = "str" => a.s = b.s
    /\ a.t = "num" => a.n = b.n

-----------------------------------------------------------------------------
(* Strings *)

\* Number.POSITIVE_INFINITY and NaN, as numbers no page or row count reaches
Infinity == 2 ^ 30
NaN == 0 - (2 ^ 30)

\* Math.min, Math.max: NaN when an argument is NaN
Min(a, b) == IF a = NaN \/ b = NaN THEN NaN ELSE IF a < b THEN a ELSE b
Max(a, b) == IF a = NaN \/ b = NaN THEN NaN ELSE IF a > b THEN a ELSE b

\* clamp(n, lo, hi)
Clamp(n, lo, hi) == Max(lo, Min(n, hi))

\* String.prototype.toLowerCase on the letters A-Z
ToLowerCase(s) ==
    [i \in 1..Len(s) |-> IF s[i] \in 65..90 THEN s[i] + 32 ELSE s[i]]

IsWhiteSpace(c) == c \in {9, 10, 11, 12, 13, 32}

RECURSIVE TrimStart(_)
TrimStart(s) ==
    IF s # <<>> /\ IsWhiteSpace(Head(s)) THEN TrimStart(Tail(s)) ELSE s

RECURSIVE TrimEnd(_)
TrimEnd(s) ==
    IF s # <<>> /\ IsWhiteSpace(s[Len(s)])
    THEN TrimEnd(SubSeq(s, 1, Len(s) - 1))
    ELSE s

\* String.prototype.trim
Trim(s) == TrimEnd(TrimStart(s))

\* String.prototype.includes
Includes(s, sub) ==
    \E i \in 0..(Len(s) - Len(sub)) : \A j \in 1..Len(sub) : s[i + j] = sub[j]

\* the decimal digits of a non-negative integer
RECURSIVE Digits(_)
Digits(n) ==
    IF n < 10 THEN <<48 + n>> ELSE Append(Digits(n \div 10), 48 + (n % 10))

\* String(value)
StringOf(v) ==
    CASE v.t = "str" -> v.s
      [] v.t = "num" -> Digits(v.n)
      [] v.t = "null" -> <<110, 117, 108, 108>>
      [] v.t = "undef" -> <<117, 110, 100, 101, 102, 105, 110, 101, 100>>

-----------------------------------------------------------------------------
(* Rows.  A row collection is a sequence of row ids; the fields of a row   *)
(* are read through Row(id)[key].  Rows 1..12 are the test data of the     *)
(* component's test suites; rows 13..18 carry the null, undefined,         *)
(* duplicate and mixed-case values the test data lacks.                    *)

Rows ==
    <<
      \* 1: Alice, 30, New York
      [name |-> Str(<<65, 108, 105, 99, 101>>), age |-> Num(30), city |-> Str(<<78, 101, 119, 32, 89, 111, 114, 107>>)],
      \* 2: Bob, 25, Los Angeles
      [name |-> Str(<<66, 111, 98>>), age |-> Num(25), city |-> Str(<<76, 111, 115, 32, 65, 110, 103, 101, 108, 101, 115>>)],
      \* 3: Charlie, 35, Chicago
      [name |-> Str(<<67, 104, 97, 114, 108, 105, 101>>), age |-> Num(35), city |-> Str(<<67, 104, 105, 99, 97, 103, 111>>)],
      \* 4: Diana, 28, Houston
      [name |-> Str(<<68, 105, 97, 110, 97>>), age |-> Num(28), city |-> Str(<<72, 111, 117, 115, 116, 111, 110>>)],
      \* 5: Eve, 32, Phoenix
      [name |-> Str(<<69, 118, 101>>), age |-> Num(32), city |-> Str(<<80, 104, 111, 101, 110, 105, 120>>)],
      \* 6: Frank, 40, Philadelphia
      [name |-> Str(<<70, 114, 97, 110, 107>>), age |-> Num(40), city |-> Str(<<80, 104, 105, 108, 97, 100, 101, 108, 112, 104, 105, 97>>)],
      \* 7: Grace, 22, San Antonio
      [name |-> Str(<<71, 114, 97, 99, 101>>), age |-> Num(22), city |-> Str(<<83, 97, 110, 32, 65, 110, 116, 111, 110, 105, 111>>)],
      \* 8: Henry, 45, San Diego
      [name |-> Str(<<72, 101, 110, 114, 121>>), age |-> Num(45), city |-> Str(<<83, 97, 110, 32, 68, 105, 101, 103, 111>>)],
      \* 9: Ivy, 29, Dallas
      [name |-> Str(<<73, 118, 121>>), age |-> Num(29), city |-> Str(<<68, 97, 108, 108, 97, 115>>)],
      \* 10: Jack, 33, San Jose
      [name |-> Str(<<74, 97, 99, 107>>), age |-> Num(33), city |-> Str(<<83, 97, 110, 32, 74, 111, 115, 101>>)],
      \* 11: Karen, 27, Austin
      [name |-> Str(<<75, 97, 114, 101, 110>>), age |-> Num(27), city |-> Str(<<65, 117, 115, 116, 105, 110>>)],
      \* 12: Leo, 38, Jacksonville
      [name |-> Str(<<76, 101, 111>>), age |-> Num(38), city |-> Str(<<74, 97, 99, 107, 115, 111, 110, 118, 105, 108, 108, 101>>)],
      \* 13: Bob, 2, x
      [name |-> Str(<<66, 111, 98>>), age |-> Num(2), city |-> Str(<<120>>)],
      \* 14: amy, 2, null
      [name |-> Str(<<97, 109, 121>>), age |-> Num(2), city |-> Null],
      \* 15: Bob, 1, undefined
      [name |-> Str(<<66, 111, 98>>), age |-> Num(1), city |-> Undefined],
      \* 16: null, null, null
      [name |-> Null, age |-> Null, city |-> Null],
      \* 17: undefined, 10, Amy
      [name |-> Undefined, age |-> Num(10), city |-> Str(<<65, 109, 121>>)],
      \* 18: bob, null, x
      [name |-> Str(<<98, 111, 98>>), age |-> Null, city |-> Str(<<120>>)]
    >>

Row(id) == Rows[id]


\* the field keys of a row (keyof T, without id)
Keys == {"name", "age", "city"}

\* sortConfig.key === null
NoKey == "none"

-----------------------------------------------------------------------------
(* State *)

VARIABLES
    impl,         \* which implementation runs: "v2", "v3" or "v4"
    engine,       \* how the platform's Array.prototype.sort works
    data,         \* props.data: the raw rows
    columns,      \* props.columns: sequence of [key, sortable]
    filterText,   \* useState('')
    sortConfig,   \* useState({key: null, direction: 'asc'})
    currentPage,  \* useState(1): the stored page
    pageSize,     \* useState(defaultPageSize)
    filteredData, \* useMemo: the rows that pass the filter
    sortedData,   \* useMemo: the filtered rows in sort order
    clicks,       \* history: the key of the last header click, and how many
                  \* clicks in a row it got (counted up to MaxToggles)
    last          \* history: the last handler that ran and the snapshot before it

vars == <<impl, engine, data, columns, filterText, sortConfig, currentPage,
          pageSize, filteredData, sortedData, clicks, last>>

props == <<impl, engine, data, columns>>

-----------------------------------------------------------------------------
(* Filter stage *)

\* v3 useFilter.filteredData
FilterV3(rows, cols, text) ==
    IF Trim(text) = <<>> THEN rows
    ELSE LET lowerFilter == ToLowerCase(text)
         IN  SelectSeq(rows, LAMBDA id :
                 \E c \in 1..Len(cols) :
                     LET value == Row(id)[cols[c].key]
                     IN  IF IsNullish(value) THEN FALSE
                         ELSE Includes(ToLowerCase(StringOf(value)), lowerFilter))

\* v2 useFiltering.filterData
FilterV2(rows, cols, text) ==
    IF Trim(text) = <<>> THEN rows
    ELSE LET searchTerm == Trim(ToLowerCase(text))
         IN  SelectSeq(rows, LAMBDA id :
                 \E c \in 1..Len(cols) :
                     LET value == Row(id)[cols[c].key]
                     IN  IF IsNullish(value) THEN FALSE
                         ELSE Includes(ToLowerCase(StringOf(value)), searchTerm))

\* v4 DataTable.filteredData
FilterV4(rows, cols, text) ==
    IF Trim(text) = <<>> THEN rows
    ELSE LET searchTerm == Trim(ToLowerCase(text))
         IN  SelectSeq(rows, LAMBDA id :
                 \E c \in 1..Len(cols) :
                     LET value == Row(id)[cols[c].key]
                     IN  Includes(ToLowerCase(StringOf(value)), searchTerm))

\* mutant of FilterRows: the rows that pass are collected last first
FilterRowsLastFirst(i, rows, cols, text) ==
    LET kept == FilterV3(rows, cols, text)
    IN  [k \in 1..Len(kept) |-> kept[Len(kept) + 1 - k]]

\* the filter stage of implementation i
FilterRows(i, rows, cols, text) ==
    CASE i = "v2" -> FilterV2(rows, cols, text)
      [] i = "v3" -> FilterV3(rows, cols, text)
      [] i = "v4" -> FilterV4(rows, cols, text)

-----------------------------------------------------------------------------
(* Sort stage *)

\* s1 < s2 on strings: by UTF-16 code unit, a proper prefix first
StringLess(s1, s2) ==
    \E i \in 1..(Min(Len(s1), Len(s2)) + 1) :
        /\ \A j \in 1..(i - 1) : s1[j] = s2[j]
        /\ \/ i > Len(s1) /\ i <= Len(s2)
           \/ i <= Len(s1) /\ i <= Len(s2) /\ s1[i] < s2[i]

\* ToNumber of a defined field value: a string of decimal digits is its
\* number, the empty string is 0, any other string is NaN
ToNumber(v) ==
    IF v.t = "num" THEN [nan |-> FALSE, n |-> v.n]
    ELSE IF v.s = <<>> THEN [nan |-> FALSE, n |-> 0]
    ELSE IF \A i \in 1..Len(v.s) : v.s[i] \in 48..57
         THEN [nan |-> FALSE,
               n |-> LET val[i \in 0..Len(v.s)] ==
                         IF i = 0 THEN 0 ELSE 10 * val[i - 1] + (v.s[i] - 48)
                     IN  val[Len(v.s)]]
         ELSE [nan |-> TRUE, n |-> 0]

\* aValue < bValue on defined field values
LessThan(a, b) ==
    IF a.t = "str" /\ b.t = "str" THEN StringLess(a.s, b.s)
    ELSE LET x == ToNumber(a)
             y == ToNumber(b)
         IN  ~x.nan /\ ~y.nan /\ x.n < y.n

\* the sign of String.prototype.localeCompare in the root collation, on
\* letters, digits, space and hyphen: the case-folded strings decide; when
\* they are equal the first difference in case does, lower case first
LocaleCompare(s1, s2) ==
    LET f1 == ToLowerCase(s1)
        f2 == ToLowerCase(s2)
    IN  IF StringLess(f1, f2) THEN -1
        ELSE IF StringLess(f2, f1) THEN 1
        ELSE IF s1 = s2 THEN 0
        ELSE LET i == CHOOSE k \in 1..Len(s1) :
                          s1[k] # s2[k] /\ \A j \in 1..(k - 1) : s1[j] = s2[j]
             IN  IF s1[i] > s2[i] THEN -1 ELSE 1

Sign(x) == IF x < 0 THEN -1 ELSE IF x > 0 THEN 1 ELSE 0

\* mutant of CompareRelational: the direction negates the null placement too
CompareRelationalNegateAll(a, b, cfg) ==
    LET aValue == Row(a)[cfg.key]
        bValue == Row(b)[cfg.key]
        comparison == IF StrictEquals(aValue, bValue) THEN 0
                      ELSE IF IsNullish(aValue) THEN 1
                      ELSE IF IsNullish(bValue) THEN -1
                      ELSE IF LessThan(aValue, bValue) THEN -1 ELSE 1
    IN  IF cfg.direction = "asc" THEN comparison ELSE -comparison

\* the comparator of v3 useSort.sortedData and of v2 useSorting.sortData
CompareRelational(a, b, cfg) ==
    LET aValue == Row(a)[cfg.key]
        bValue == Row(b)[cfg.key]
    IN  IF StrictEquals(aValue, bValue) THEN 0
        ELSE IF IsNullish(aValue) THEN 1
        ELSE IF IsNullish(bValue) THEN -1
        ELSE LET comparison == IF LessThan(aValue, bValue) THEN -1 ELSE 1
             IN  IF cfg.direction = "asc" THEN comparison ELSE -comparison

\* the comparator of v4 DataTable.sortedData
CompareLocale(a, b, cfg) ==
    LET aVal == Row(a)[cfg.key]
        bVal == Row(b)[cfg.key]
    IN  IF StrictEquals(aVal, bVal) THEN 0
        ELSE IF IsNullish(aVal) THEN 1
        ELSE IF IsNullish(bVal) THEN -1
        ELSE LET comparison ==
                     IF aVal.t = "num" /\ bVal.t = "num"
                     THEN Sign(aVal.n - bVal.n)
                     ELSE LocaleCompare(StringOf(aVal), StringOf(bVal))
             IN  IF cfg.direction = "asc" THEN comparison ELSE -comparison

\* the elements of an array
Elements(arr) == {arr[i] : i \in 1..Len(arr)}

\* Array.prototype.sort(compareFn) of the platform, an insertion sort:
\*   "binary"    each element goes where a binary search of the sorted prefix
\*               puts it, after the elements it compares equal to (V8's
\*               sort of a short array)
\*   "linear"    each element moves left past the elements that compare
\*               greater than it
\*   "unstable"  as "linear", and past those that compare equal as well (an
\*               engine older than ES2019, which does not promise stability)
\* For a consistent comparator the first two give the one stable order.
\* compareFn is the comparator as a function of two elements of arr.
PlatformSort(arr, compareFn, eng) ==
    LET Place(sorted, e) ==
            LET n == Len(sorted)
                Stays(p) == IF eng = "unstable" THEN compareFn[p, e] < 0
                                                ELSE compareFn[p, e] <= 0
                linear == IF \E i \in 1..n : Stays(sorted[i])
                          THEN CHOOSE i \in 1..n :
                                   /\ Stays(sorted[i])
                                   /\ \A j \in (i + 1)..n : ~Stays(sorted[j])
                          ELSE 0
                search[left \in 0..n, right \in 0..n] ==
                    IF left >= right THEN left
                    ELSE LET mid == left + ((right - left) \div 2)
                         IN  IF compareFn[e, sorted[mid + 1]] < 0
                             THEN search[left, mid]
                             ELSE search[mid + 1, right]
                k == IF eng = "binary" THEN search[0, n] ELSE linear
            IN  SubSeq(sorted, 1, k) \o <<e>> \o SubSeq(sorted, k + 1, n)
        run[i \in 0..Len(arr)] ==
            IF i = 0 THEN <<>> ELSE Place(run[i - 1], arr[i])
    IN  run[Len(arr)]

\* v2 stableSort
stableSort(arr, compareFn, eng) ==
    LET indexed == [i \in 1..Len(arr) |-> [item |-> arr[i], index |-> i - 1]]
        sorted == PlatformSort(indexed,
                      [a \in Elements(indexed), b \in Elements(indexed) |->
                          LET result == compareFn[a.item, b.item]
                          IN  IF result # 0 THEN result ELSE a.index - b.index],
                      eng)
    IN  [i \in 1..Len(sorted) |-> sorted[i].item]

\* mutant of SortV2: the platform sort without stableSort's index tie-break
SortV2Unstable(rows, cfg, eng) ==
    IF cfg.key = NoKey THEN rows
    ELSE PlatformSort(rows, [a \in Elements(rows), b \in Elements(rows) |->
             CompareRelational(a, b, cfg)], eng)

\* v2 useSorting.sortData
SortV2(rows, cfg, eng) ==
    IF cfg.key = NoKey THEN rows
    ELSE stableSort(rows, [a \in Elements(rows), b \in Elements(rows) |->
             CompareRelational(a, b, cfg)], eng)

\* v3 useSort.sortedData
SortV3(rows, cfg, eng) ==
    IF cfg.key = NoKey THEN rows
    ELSE PlatformSort(rows, [a \in Elements(rows), b \in Elements(rows) |->
             CompareRelational(a, b, cfg)], eng)

\* v4 DataTable.sortedData
SortV4(rows, cfg, eng) ==
    IF cfg.key = NoKey THEN rows
    ELSE PlatformSort(rows, [a \in Elements(rows), b \in Elements(rows) |->
             CompareLocale(a, b, cfg)], eng)

\* the sort stage of implementation i on a platform whose sort is eng
SortRows(i, eng, rows, cfg) ==
    CASE i = "v2" -> SortV2(rows, cfg, eng)
      [] i = "v3" -> SortV3(rows, cfg, eng)
      [] i = "v4" -> SortV4(rows, cfg, eng)

-----------------------------------------------------------------------------
(* Pagination stage *)

\* Math.ceil(a / b) for a >= 0: a / 0 is Infinity for a > 0 and NaN for
\* a = 0, and a negative quotient is rounded towards zero
Ceil(a, b) ==
    IF b > 0 THEN (a + b - 1) \div b
    ELSE IF b = 0 THEN (IF a = 0 THEN NaN ELSE Infinity)
    ELSE -(a \div (-b))

\* Array.prototype.slice(start, end): a negative index counts from the end
Slice(arr, start, end) ==
    LET \* an index that is NaN is 0
        Index(k) == IF k = NaN THEN 0
                    ELSE IF k < 0 THEN Max(Len(arr) + k, 0)
                    ELSE Min(k, Len(arr))
    IN  SubSeq(arr, Index(start) + 1, Index(end))

totalItems == Len(sortedData)

\* mutant of totalPages: the quotient is rounded down
totalPagesRoundedDown ==
    Max(1, IF pageSize > 0 THEN Len(sortedData) \div pageSize
                           ELSE Ceil(Len(sortedData), pageSize))

totalPages == Max(1, Ceil(Len(sortedData), pageSize))

\* the page shown to the consumer (currentPage: safePage)
safePage == Min(currentPage, totalPages)

\* mutant of paginatedData: the slice starts one page too far
paginatedDataOffByOne ==
    LET startIndex == safePage * pageSize
    IN  Slice(sortedData, startIndex, startIndex + pageSize)

paginatedData ==
    LET startIndex == IF safePage = NaN THEN NaN ELSE (safePage - 1) * pageSize
    IN  Slice(sortedData, startIndex,
              IF startIndex = NaN THEN NaN ELSE startIndex + pageSize)

\* the rows paginatedData holds when page p is the page shown
pageRowsAt(p) ==
    LET startIndex == (p - 1) * pageSize
    IN  Slice(sortedData, startIndex, startIndex + pageSize)

\* "Showing startItem to endItem of totalItems": v3 startItem, v4
\* startIndex, v2 the first number of the footer
startItem ==
    CASE impl = "v3" ->
             IF Len(paginatedData) > 0 THEN (safePage - 1) * pageSize + 1 ELSE 0
      [] impl = "v4" ->
             IF Len(sortedData) = 0 THEN 0 ELSE (safePage - 1) * pageSize + 1
      [] impl = "v2" -> (safePage - 1) * pageSize + 1

\* mutant of endItem: the end of the range is not cut at the row count
endItemUncut == IF safePage = NaN THEN NaN ELSE safePage * pageSize

\* v3 endItem, v4 endIndex, v2 the second number of the footer
endItem ==
    Min(IF safePage = NaN THEN NaN ELSE safePage * pageSize, Len(sortedData))

\* v2 shows 'No results' in place of the range when no row is left
showsRange == ~(impl = "v2" /\ Len(sortedData) = 0)

\* v3 hasPreviousPage; v2 and v4 the negation of disabled={page === 1} of
\* the First and Previous buttons (=== is false when an operand is NaN)
hasPreviousPage ==
    IF impl = "v3" THEN safePage # NaN /\ safePage > 1
    ELSE safePage = NaN \/ safePage # 1

\* mutant of hasNextPage: the page before the last counts as the last
hasNextPageOneEarly == safePage # NaN /\ safePage + 1 < totalPages

\* v3 hasNextPage; v2 and v4 the negation of disabled={page === totalPages}
\* of the Next and Last buttons
hasNextPage ==
    IF impl = "v3" THEN safePage # NaN /\ safePage < totalPages
    ELSE safePage = NaN \/ safePage # totalPages

\* the array the loop for (let i = from; i <= to; i++) pages.push(i) fills
PagesFromTo(from, to) == [k \in 1..(to - from + 1) |-> from + k - 1]

\* mutant of getPageNumbers: without the branch for the last pages
getPageNumbersNoEndBranch ==
    LET maxVisible == 5
    IN  IF totalPages = NaN THEN <<>>
        ELSE IF totalPages <= maxVisible THEN PagesFromTo(1, totalPages)
        ELSE IF safePage <= 3 THEN PagesFromTo(1, maxVisible)
        ELSE PagesFromTo(safePage - 2, safePage + 2)

\* v4 getPageNumbers: the numbers of the page buttons shown, in their order
\* (every comparison with NaN is false, which leaves the last loop, and
\* that loop does not run)
getPageNumbers ==
    LET maxVisible == 5
    IN  IF totalPages = NaN THEN <<>>
        ELSE IF totalPages <= maxVisible THEN PagesFromTo(1, totalPages)
        ELSE IF safePage <= 3 THEN PagesFromTo(1, maxVisible)
        ELSE IF safePage >= totalPages - 2
             THEN PagesFromTo(totalPages - maxVisible + 1, totalPages)
        ELSE PagesFromTo(safePage - 2, safePage + 2)

-----------------------------------------------------------------------------
(* Inputs *)

\* the largest page number passed to goToPage
MaxPageArg == 4

\* the number of consecutive clicks on one header that are counted
MaxToggles == 4

\* the length of the generated row collections
MaxRows == 3

\* pageSize={5} of the application and of the tests
DefaultPageSize == 5

\* pageSizeOptions = [5, 10, 20]
PageSizeOptions == {5, 10, 20}

\* the test data of the test suites
testData == <<1, 2, 3, 4, 5, 6, 7, 8, 9, 10, 11, 12>>

\* rows with null, undefined, duplicate and mixed-case values
sparseData == <<13, 14, 15, 16, 17, 18>>

testColumns ==
    << [key |-> "name", sortable |-> "true"],
       [key |-> "age", sortable |-> "true"],
       [key |-> "city", sortable |-> "true"] >>

\* a column list without the city column, age without a sortable flag
twoColumns ==
    << [key |-> "name", sortable |-> "true"],
       [key |-> "age", sortable |-> "absent"] >>

\* what is typed into the filter input: "", " ", "a", "Alice", "zz"
Queries ==
    { <<>>, <<32>>, <<97>>, <<65, 108, 105, 99, 101>>, <<122, 122>> }

\* what the filter stage is given besides: "B ", "nul", "und", "1", "AM",
\* "i"
StageQueries ==
    Queries \cup { <<66, 32>>, <<110, 117, 108>>, <<117, 110, 100>>, <<49>>,
                   <<65, 77>>, <<105>> }

\* the props the component is mounted with: <<data, columns>>
Mounts ==
    { <<testData, testColumns>>, <<sparseData, twoColumns>>,
      <<(<<>>), testColumns>> }

\* the row collections of n distinct rows of sparseData, in every order
RECURSIVE RowSeqs(_)
RowSeqs(n) ==
    IF n = 0 THEN { <<>> }
    ELSE UNION { { Append(s, id) :
                     id \in {sparseData[k] : k \in 1..Len(sparseData)}
                             \ {s[k] : k \in 1..Len(s)} } :
                 s \in RowSeqs(n - 1) }

\* every row collection of at most MaxRows of these rows, with either
\* column list
StageMounts ==
    (UNION { RowSeqs(n) : n \in 0..MaxRows }) \X {testColumns, twoColumns}

\* the data props the parent passes after the mount
PropData == { testData, sparseData, <<>>, <<13>>, <<14, 13>> }

\* the props of a later render: <<data, columns>>
PropMounts == PropData \X {testColumns, twoColumns}

Impls == {"v2", "v3", "v4"}

Engines == {"binary", "linear", "unstable"}

SortConfigs == [key : Keys \cup {NoKey}, direction : {"asc", "desc"}]

\* useMemo(filteredData): the filter stage's result for every input of
\* the model, computed once
filteredMemo ==
    [i \in Impls |->
        [m \in Mounts \cup StageMounts \cup PropMounts |->
            [q \in StageQueries |-> FilterRows(i, m[1], m[2], q)] @@ <<>>]
        @@ <<>>] @@ <<>>

\* the row collections the sort stage is given
FilterResults ==
    { filteredMemo[i][m][q] :
        i \in Impls, m \in Mounts \cup StageMounts \cup PropMounts,
        q \in StageQueries }

\* useMemo(sortedData): the sort stage's result for every input of the
\* model, computed once
sortedMemo ==
    [i \in Impls |->
        [eng \in Engines |->
            [cfg \in SortConfigs |->
                [rows \in FilterResults |-> SortRows(i, eng, rows, cfg)]
                @@ <<>>] @@ <<>>] @@ <<>>] @@ <<>>

-----------------------------------------------------------------------------
(* Handlers *)

NoSort == [key |-> NoKey, direction |-> "asc"]

\* the history of a handler: its name, its argument, the page shown and the
\* sort configuration when it was called, and whether the call repeats the
\* call before it (recorded for the filter input)
Called(op, n) ==
    [op |-> op, n |-> n, page |-> safePage, sort |-> sortConfig,
     again |-> FALSE]

\* mutant of resetPage: the next page, not the first
resetPageAdvance == currentPage' = Min(currentPage + 1, MaxPageArg)

\* v3 resetPage, v2 resetToFirstPage, v4 setCurrentPage(1)
resetPage == currentPage' = 1

\* mutant of goToPage: no lower clamp
goToPageNoFloor(page) == currentPage' = Min(page, totalPages)

\* mutant of goToPage: no upper clamp
goToPageNoCeiling(page) == currentPage' = Max(1, page)

\* v2/v3 goToPage
goToPage(page) == currentPage' = Max(1, Min(page, totalPages))

\* col.sortable as the header's click handler reads it
IsSortable(col) ==
    IF impl = "v2" THEN col.sortable # "false" ELSE col.sortable = "true"

\* mutant of NextSortConfig: the direction never flips
NextSortConfigAlwaysAsc(prev, key) == [key |-> key, direction |-> "asc"]

\* mutant of NextSortConfig: the direction flips whatever key is clicked
NextSortConfigNoKeyCheck(prev, key) ==
    [key |-> key,
     direction |-> IF prev.key # NoKey /\ prev.direction = "asc"
                   THEN "desc" ELSE "asc"]

\* setSortConfig(prev => ...) of handleSort
NextSortConfig(prev, key) ==
    [key |-> key,
     direction |-> IF prev.key = key /\ prev.direction = "asc"
                   THEN "desc" ELSE "asc"]

\* mutant of Recompute: the sort stage is given the raw rows
RecomputeUnfiltered(text, cfg) ==
    /\ filteredData' = filteredMemo[impl][<<data, columns>>][text]
    /\ sortedData' = sortedMemo[impl][engine][cfg][data]

\* useMemo: filteredData is recomputed when filterText changes, sortedData
\* when filteredData changes (and when sortConfig does, see handleSortClick)
Recompute(text, cfg) ==
    LET filtered == filteredMemo[impl][<<data, columns>>][text]
    IN  /\ filteredData' = filtered
        /\ sortedData' = sortedMemo[impl][engine][cfg][filtered]

\* typing in the filter input
handleFilterChange(q) ==
    /\ filterText' = q
    /\ resetPage
    /\ Recompute(q, sortConfig)
    /\ last' = [Called("setFilterQuery", 0) EXCEPT
                    !.again = (last.op = "setFilterQuery" /\ filterText = q)]
    /\ UNCHANGED <<props, sortConfig, pageSize, clicks>>

\* v3: the 'Clear filter' button of the empty state
clearFilter ==
    /\ impl = "v3"
    /\ Len(paginatedData) = 0
    /\ filterText # <<>>
    /\ filterText' = <<>>
    /\ Recompute(<<>>, sortConfig)
    /\ last' = Called("clearFilter", 0)
    /\ UNCHANGED <<props, sortConfig, currentPage, pageSize, clicks>>

\* mutant of handleSortClick: the rows keep the order of the sort before
handleSortClickStaleRows(key) ==
    /\ \E c \in 1..Len(columns) : columns[c].key = key /\ IsSortable(columns[c])
    /\ sortConfig' = NextSortConfig(sortConfig, key)
    /\ resetPage
    /\ clicks' = [key |-> key,
                  count |-> IF clicks.key = key
                            THEN Min(clicks.count + 1, MaxToggles)
                            ELSE 1]
    /\ last' = Called("toggleSort", 0)
    /\ UNCHANGED <<props, filterText, pageSize, filteredData, sortedData>>

\* mutant of handleSortClick: the rows are sorted in place, with no copy made
\* ([...data] left out), so the array the filter stage returned is reordered
\* and, when the filter is empty, that array is the data prop itself
handleSortClickInPlace(key) ==
    LET sorted ==
            sortedMemo[impl][engine][NextSortConfig(sortConfig, key)][filteredData]
    IN  /\ \E c \in 1..Len(columns) :
               columns[c].key = key /\ IsSortable(columns[c])
        /\ sortConfig' = NextSortConfig(sortConfig, key)
        /\ resetPage
        /\ sortedData' = sorted
        /\ filteredData' = sorted
        /\ data' = IF Trim(filterText) = <<>> THEN sorted ELSE data
        /\ clicks' = [key |-> key,
                      count |-> IF clicks.key = key
                                THEN Min(clicks.count + 1, MaxToggles)
                                ELSE 1]
        /\ last' = Called("toggleSort", 0)
        /\ UNCHANGED <<impl, engine, columns, filterText, pageSize>>

\* mutant of handleSortClick: the page is not reset
handleSortClickNoReset(key) ==
    /\ \E c \in 1..Len(columns) : columns[c].key = key /\ IsSortable(columns[c])
    /\ sortConfig' = NextSortConfig(sortConfig, key)
    /\ sortedData' =
           sortedMemo[impl][engine][NextSortConfig(sortConfig, key)][filteredData]
    /\ clicks' = [key |-> key,
                  count |-> IF clicks.key = key
                            THEN Min(clicks.count + 1, MaxToggles)
                            ELSE 1]
    /\ last' = Called("toggleSort", 0)
    /\ UNCHANGED <<props, filterText, currentPage, pageSize, filteredData>>

\* a click on the header of a sortable column
handleSortClick(key) ==
    /\ \E c \in 1..Len(columns) : columns[c].key = key /\ IsSortable(columns[c])
    /\ sortConfig' = NextSortConfig(sortConfig, key)
    /\ resetPage
    /\ sortedData' =
           sortedMemo[impl][engine][NextSortConfig(sortConfig, key)][filteredData]
    /\ clicks' = [key |-> key,
                  count |-> IF clicks.key = key
                            THEN Min(clicks.count + 1, MaxToggles)
                            ELSE 1]
    /\ last' = Called("toggleSort", 0)
    /\ UNCHANGED <<props, filterText, pageSize, filteredData>>

\* mutant of handlePageSizeChange: the page is kept
handlePageSizeChangeKeepPage(newSize) ==
    /\ pageSize' = newSize
    /\ last' = Called("setPageSize", newSize)
    /\ UNCHANGED <<props, filterText, sortConfig, currentPage, filteredData,
                   sortedData, clicks>>

\* choosing a page size
handlePageSizeChange(newSize) ==
    /\ pageSize' = newSize
    /\ currentPage' = 1
    /\ last' = Called("setPageSize", newSize)
    /\ UNCHANGED <<props, filterText, sortConfig, filteredData, sortedData,
                   clicks>>

\* v2/v3 goToPage(n); v4 a page button, First or Last
handleGoToPage(n) ==
    /\ IF impl = "v4"
       THEN /\ n \in Elements(getPageNumbers) \cup {1, totalPages}
            /\ currentPage' = n
       ELSE goToPage(n)
    /\ last' = Called("goToPage", n)
    /\ UNCHANGED <<props, filterText, sortConfig, pageSize, filteredData,
                   sortedData, clicks>>

\* mutant of goToNextPage: the step to the next page drops the sort
goToNextPageDropsSort ==
    /\ goToPage(safePage + 1)
    /\ sortConfig' = NoSort
    /\ sortedData' = filteredData
    /\ last' = Called("nextPage", 0)
    /\ UNCHANGED <<props, filterText, pageSize, filteredData, clicks>>

\* Next
goToNextPage ==
    /\ CASE impl = "v2" -> goToPage(safePage + 1)
         [] impl = "v3" -> goToPage(currentPage + 1)
         [] impl = "v4" -> currentPage' = Min(totalPages, currentPage + 1)
    /\ last' = Called("nextPage", 0)
    /\ UNCHANGED <<props, filterText, sortConfig, pageSize, filteredData,
                   sortedData, clicks>>

\* Previous
goToPreviousPage ==
    /\ CASE impl = "v2" -> goToPage(safePage - 1)
         [] impl = "v3" -> goToPage(currentPage - 1)
         [] impl = "v4" -> currentPage' = Max(1, currentPage - 1)
    /\ last' = Called("previousPage", 0)
    /\ UNCHANGED <<props, filterText, sortConfig, pageSize, filteredData,
                   sortedData, clicks>>

-----------------------------------------------------------------------------
(* The component mounted on the test data, on the sparse rows or on no     *)
(* rows, on a platform whose sort is stable                                *)

Init ==
    \E m \in Mounts :
        /\ impl \in Impls
        /\ engine = "binary"
        /\ data = m[1]
        /\ columns = m[2]
        /\ filterText = <<>>
        /\ sortConfig = NoSort
        /\ currentPage = 1
        /\ pageSize = DefaultPageSize
        /\ filteredData = data
        /\ sortedData = data
        /\ clicks = [key |-> NoKey, count |-> 0]
        /\ last = [op |-> "init", n |-> 0, page |-> 1, sort |-> NoSort,
                   again |-> FALSE]

Next ==
    \/ \E q \in Queries : handleFilterChange(q)
    \/ clearFilter
    \/ \E key \in Keys : handleSortClick(key)
    \/ \E newSize \in PageSizeOptions : handlePageSizeChange(newSize)
    \/ \E n \in 0..MaxPageArg : handleGoToPage(n)
    \/ goToNextPage
    \/ goToPreviousPage

Spec == Init /\ [][Next]_vars

-----------------------------------------------------------------------------
(* The filter stage alone: the component mounted on any row collection     *)
(* of at most MaxRows rows, and only the filter input used                 *)

Mounted(m, eng) ==
    /\ impl \in Impls
    /\ engine = eng
    /\ data = m[1]
    /\ columns = m[2]
    /\ filterText = <<>>
    /\ sortConfig = NoSort
    /\ currentPage = 1
    /\ pageSize = DefaultPageSize
    /\ filteredData = data
    /\ sortedData = data
    /\ clicks = [key |-> NoKey, count |-> 0]
    /\ last = [op |-> "init", n |-> 0, page |-> 1, sort |-> NoSort,
                   again |-> FALSE]

InitFilter == \E m \in StageMounts : Mounted(m, "binary")

NextFilter == \E q \in StageQueries : handleFilterChange(q)

SpecFilter == InitFilter /\ [][NextFilter]_vars

(* The sort stage alone: the same row collections, on every platform       *)
(* sort, and only the headers clicked                                      *)

InitSort == \E m \in StageMounts, eng \in Engines : Mounted(m, eng)

NextSort == \E key \in Keys : handleSortClick(key)

SpecSort == InitSort /\ [][NextSort]_vars


(* The component re-rendered by its parent with another data prop          *)

\* mutant of rerender: the stored page is clamped to the new last page
rerenderClampStored(newData) ==
    LET filtered == filteredMemo[impl][<<newData, columns>>][filterText]
    IN  /\ newData # data
        /\ data' = newData
        /\ filteredData' = filtered
        /\ sortedData' = sortedMemo[impl][engine][sortConfig][filtered]
        /\ currentPage' = Clamp(currentPage, 1, Max(1, Ceil(Len(filtered), pageSize)))
        /\ last' = Called("rerender", 0)
        /\ UNCHANGED <<impl, engine, columns, filterText, sortConfig, pageSize,
                       clicks>>

\* a render with a new data prop: the useMemo values are recomputed, the
\* useState values are kept
rerender(newData) ==
    LET filtered == filteredMemo[impl][<<newData, columns>>][filterText]
    IN  /\ newData # data
        /\ data' = newData
        /\ filteredData' = filtered
        /\ sortedData' = sortedMemo[impl][engine][sortConfig][filtered]
        /\ last' = Called("rerender", 0)
        /\ UNCHANGED <<impl, engine, columns, filterText, sortConfig,
                       currentPage, pageSize, clicks>>

NextProps ==
    \/ Next
    \/ handleFilterChange(<<105>>)
    \/ \E newData \in PropData : rerender(newData)

SpecProps == Init /\ [][NextProps]_vars

(* Page sizes: the component mounted on the test data or on no rows with   *)
(* any pageSize prop, and with page sizes among its pageSizeOptions that   *)
(* are no positive numbers; the page size is changed and pages are chosen  *)

\* values of the pageSize prop and of the pageSizeOptions prop
PageSizeProps == {0 - 5, 0, 1, 5}

InitSizes ==
    /\ impl \in Impls
    /\ engine = "binary"
    /\ data \in {testData, <<>>}
    /\ columns = testColumns
    /\ filterText = <<>>
    /\ sortConfig = NoSort
    /\ currentPage = 1
    /\ pageSize \in PageSizeProps
    /\ filteredData = data
    /\ sortedData = data
    /\ clicks = [key |-> NoKey, count |-> 0]
    /\ last = [op |-> "init", n |-> 0, page |-> 1, sort |-> NoSort,
               again |-> FALSE]

NextSizes ==
    \/ \E newSize \in PageSizeProps : handlePageSizeChange(newSize)
    \/ \E n \in 0..MaxPageArg : handleGoToPage(n)

SpecSizes == InitSizes /\ [][NextSizes]_vars

(* Many pages: v4, which shows numbered page buttons, mounted on the first *)
(* k test rows with small page sizes among its pageSizeOptions; the page   *)
(* buttons, First, Last, Next and Previous are clicked and the page size   *)
(* is changed                                                              *)

\* page sizes that give 1 to 12 pages of up to 12 test rows
SmallPageSizes == {1, 2, 5}

InitPages ==
    /\ impl = "v4"
    /\ engine = "binary"
    /\ data \in {SubSeq(testData, 1, k) : k \in 0..Len(testData)}
    /\ columns = testColumns
    /\ filterText = <<>>
    /\ sortConfig = NoSort
    /\ currentPage = 1
    /\ pageSize \in SmallPageSizes
    /\ filteredData = data
    /\ sortedData = data
    /\ clicks = [key |-> NoKey, count |-> 0]
    /\ last = [op |-> "init", n |-> 0, page |-> 1, sort |-> NoSort,
               again |-> FALSE]

NextPages ==
    \/ \E newSize \in SmallPageSizes : handlePageSizeChange(newSize)
    \/ \E n \in 1..Len(data) : handleGoToPage(n)
    \/ goToNextPage
    \/ goToPreviousPage

SpecPages == InitPages /\ [][NextPages]_vars

-----------------------------------------------------------------------------
(* Pagination bounds and resets *)

\* C1: in every reachable state the page shown to the consumer lies in
\* 1..totalPages, where totalPages is max(1, ceil(totalItems / pageSize))
\* and totalItems is the number of rows that pass the current filter.
PageWithinBounds ==
    LET items == Len(filteredData)
        pages == Max(1, Ceil(items, pageSize))
    IN  /\ totalItems = items
        /\ totalPages = pages
        /\ 1 <= safePage
        /\ safePage <= pages

\* a filter has left fewer pages than the page that was shown, and a page
\* beyond page 1 is shown again later
PageWithinBoundsWitness ==
    /\ last.op = "goToPage"
    /\ filterText # <<>>
    /\ totalItems < Len(data)
    /\ safePage = totalPages
    /\ safePage > 1

\* C2: after every change of the filter query, typed or by 'Clear filter',
\* the page shown is page 1, whatever page was shown before.
FilterChangeShowsFirstPage ==
    last.op \in {"setFilterQuery", "clearFilter"} => safePage = 1

\* C3: after every click on a sortable header, on a new key or on the
\* active one, the page shown is page 1, whatever page was shown before.
SortClickShowsFirstPage ==
    last.op = "toggleSort" => safePage = 1 /\ currentPage = 1

\* the active key was clicked again while page 2 was shown
SortClickWitness ==
    /\ last.op = "toggleSort"
    /\ last.page = 2
    /\ last.sort.key = sortConfig.key
    /\ sortConfig.direction = "desc"
    /\ totalPages > 1

\* C4: setPageSize(n) stores n as the page size and 1 as the page, also
\* when the page shown before exists under the new size; the number of
\* pages is then max(1, ceil(totalItems / n)).
PageSizeChangeResets ==
    last.op = "setPageSize" =>
        /\ pageSize = last.n
        /\ currentPage = 1
        /\ safePage = 1
        /\ totalPages = Max(1, Ceil(Len(filteredData), last.n))

\* the page shown before is a page under the new size as well
PageSizeChangeWitness ==
    /\ last.op = "setPageSize"
    /\ last.page > 1
    /\ last.page <= totalPages
    /\ pageSize = 10

\* "Alice"
Alice == <<65, 108, 105, 99, 101>>

\* C5: on the 12 test rows with pageSize 5, typing a query that matches
\* one row while page 3 is shown gives totalItems 1, totalPages 1, page 1
\* and that row as the page; and whenever a typed query leaves fewer rows
\* than precede the page shown before, page 1 is shown with the first
\* min(pageSize, totalItems) rows, which is no empty page unless no row
\* is left.
FilterShrinkShowsFirstRows ==
    /\ ( /\ data = testData
         /\ last.op = "setFilterQuery"
         /\ last.page = 3
         /\ pageSize = 5
         /\ filterText = Alice )
       => /\ totalItems = 1
          /\ totalPages = 1
          /\ safePage = 1
          /\ paginatedData = <<1>>
    /\ ( /\ last.op = "setFilterQuery"
         /\ totalItems < (last.page - 1) * pageSize )
       => /\ safePage = 1
          /\ paginatedData = SubSeq(sortedData, 1, Min(pageSize, totalItems))
          /\ totalItems > 0 => paginatedData # <<>>

\* the scenario: "Alice" typed on page 3 of the test rows, pageSize 5
FilterShrinkWitness ==
    /\ data = testData
    /\ last.op = "setFilterQuery"
    /\ last.page = 3
    /\ pageSize = 5
    /\ filterText = Alice
    /\ paginatedData = <<1>>

-----------------------------------------------------------------------------
(* Sort state *)

\* C6: n clicks in a row on one header leave that key active, ascending
\* when n is odd and descending when n is even; the sort never returns to
\* 'no key'.
ToggleAlternates ==
    /\ clicks.count \in 1..(MaxToggles - 1) =>
           /\ sortConfig.key = clicks.key
           /\ sortConfig.direction =
                  IF clicks.count % 2 = 1 THEN "asc" ELSE "desc"
    /\ clicks.count > 0 => sortConfig.key # NoKey

\* the third click in a row: ascending again
ToggleAlternatesWitness ==
    /\ clicks.count = 3
    /\ sortConfig.key = clicks.key
    /\ sortConfig.direction = "asc"

\* C7: one sort key at most is active; a click on header B while key A # B
\* is active makes B the key, ascending, whatever A's direction was, and
\* the rows are the filtered rows sorted by B alone.
SingleSortKey ==
    /\ sortConfig \in SortConfigs
    /\ ( /\ last.op = "toggleSort"
         /\ last.sort.key # NoKey
         /\ last.sort.key # clicks.key )
       => /\ sortConfig = [key |-> clicks.key, direction |-> "asc"]
          /\ sortedData = SortRows(impl, engine, filteredData,
                                   [key |-> clicks.key, direction |-> "asc"])

\* B was clicked while A was active and descending; A's order is gone
SingleSortKeyWitness ==
    /\ last.op = "toggleSort"
    /\ last.sort.key = "name"
    /\ last.sort.direction = "desc"
    /\ clicks.key = "age"
    /\ sortConfig.key = "age"
    /\ data = testData
    /\ sortedData[1] = 7

-----------------------------------------------------------------------------
(* Sort stage *)

\* the position of row id in a row collection
Position(rows, id) == CHOOSE i \in 1..Len(rows) : rows[i] = id

\* the values under key of the rows that have one, in the rows' order
DefinedValues(rows, key) ==
    LET defined == SelectSeq(rows, LAMBDA id : ~IsNullish(Row(id)[key]))
    IN  [i \in 1..Len(defined) |-> Row(defined[i])[key]]

Reverse(s) == [i \in 1..Len(s) |-> s[Len(s) + 1 - i]]

\* rows that are equal under the active key keep their order
KeepsOrderOfEquals ==
    \A i, j \in 1..Len(filteredData) :
        ( /\ i < j
          /\ StrictEquals(Row(filteredData[i])[sortConfig.key],
                          Row(filteredData[j])[sortConfig.key]) )
        => Position(sortedData, filteredData[i])
               < Position(sortedData, filteredData[j])

\* C8: in both directions two rows with equal values under the active key
\* keep in sortedData the order they have in filteredData: for every
\* implementation on a platform whose sort is stable (ES2019), and for
\* v2's stableSort also on a platform that reorders elements its
\* comparator reports as equal.
SortIsStable ==
    ( /\ sortConfig.key # NoKey
      /\ impl = "v2" \/ engine # "unstable" )
    => KeepsOrderOfEquals

\* stableSort, descending, on a platform whose sort is not stable: rows
\* with equal keys are there and the sort has moved rows
SortIsStableWitness ==
    /\ impl = "v2"
    /\ engine = "unstable"
    /\ sortConfig.key # NoKey
    /\ sortConfig.direction = "desc"
    /\ sortedData # filteredData
    /\ \E i, j \in 1..Len(filteredData) :
           /\ i < j
           /\ StrictEquals(Row(filteredData[i])[sortConfig.key],
                           Row(filteredData[j])[sortConfig.key])

\* C9: under every active key and in both directions no row with a null
\* or undefined value stands before a row with a defined one; the
\* direction reverses the order of the defined values only.
NullsLast ==
    sortConfig.key # NoKey =>
        /\ \A i, j \in 1..Len(sortedData) :
               ( /\ i < j
                 /\ IsNullish(Row(sortedData[i])[sortConfig.key]) )
               => IsNullish(Row(sortedData[j])[sortConfig.key])
        /\ LET asc == sortedMemo[impl][engine]
                          [[key |-> sortConfig.key, direction |-> "asc"]]
                          [filteredData]
               desc == sortedMemo[impl][engine]
                           [[key |-> sortConfig.key, direction |-> "desc"]]
                           [filteredData]
           IN  DefinedValues(desc, sortConfig.key)
                   = Reverse(DefinedValues(asc, sortConfig.key))

\* descending, with two different defined values before a null or
\* undefined one that preceded them in the filtered rows
NullsLastWitness ==
    /\ sortConfig.key # NoKey
    /\ sortConfig.direction = "desc"
    /\ Len(sortedData) = 3
    /\ IsNullish(Row(filteredData[1])[sortConfig.key])
    /\ ~IsNullish(Row(sortedData[1])[sortConfig.key])
    /\ ~IsNullish(Row(sortedData[2])[sortConfig.key])
    /\ ~StrictEquals(Row(sortedData[1])[sortConfig.key],
                     Row(sortedData[2])[sortConfig.key])
    /\ IsNullish(Row(sortedData[3])[sortConfig.key])

-----------------------------------------------------------------------------
(* Filter stage *)

\* some column of cols has a defined value in row id whose lower-cased
\* string form contains the lower-cased query
SomeColumnContains(id, cols, q) ==
    \E c \in 1..Len(cols) :
        LET value == Row(id)[cols[c].key]
        IN  /\ ~IsNullish(value)
            /\ Includes(ToLowerCase(StringOf(value)), ToLowerCase(q))

\* C10: for a query q whose trimmed form is not empty, the filter result
\* holds exactly the rows with a column (sortable or not) whose value's
\* lower-cased string form contains the lower-cased q, in the rows' order;
\* for a q whose trimmed form is empty it is the whole row collection.
FilterMatchesContains ==
    filteredData =
        IF Trim(filterText) = <<>> THEN data
        ELSE SelectSeq(data, LAMBDA id :
                 SomeColumnContains(id, columns, filterText))

\* every column of cols is null or undefined in row id
AllFieldsNullish(id, cols) ==
    \A c \in 1..Len(cols) : IsNullish(Row(id)[cols[c].key])

\* C11: for every query that filters (its trimmed form is not empty), the
\* queries "nul" and "und" among them, a row all of whose column values are
\* null or undefined is not in the filter result.
NullFieldsNeverMatch ==
    Trim(filterText) # <<>> =>
        \A i \in 1..Len(filteredData) : ~AllFieldsNullish(filteredData[i], columns)

-----------------------------------------------------------------------------
(* Pipeline order *)

\* the page of the row at position i of the sorted rows
PageOf(i) == ((i - 1) \div pageSize) + 1

\* the comparator of the mounted implementation
Compare(a, b, cfg) ==
    IF impl = "v4" THEN CompareLocale(a, b, cfg) ELSE CompareRelational(a, b, cfg)

-----------------------------------------------------------------------------
(* Navigation *)

\* C13: goToPage(n) stores clamp(n, 1, totalPages), for n <= 0 and for
\* n > totalPages as well, and does not go back to page 1; nextPage and
\* previousPage store what goToPage(currentPage + 1) and
\* goToPage(currentPage - 1) store, so nextPage on the last page and
\* previousPage on page 1 leave the page as it is.
GoToPageClamps ==
    /\ last.op = "goToPage" => currentPage = Clamp(last.n, 1, totalPages)
    /\ last.op = "nextPage" =>
           /\ currentPage = Clamp(last.page + 1, 1, totalPages)
           /\ last.page = totalPages => currentPage = last.page
    /\ last.op = "previousPage" =>
           /\ currentPage = Clamp(last.page - 1, 1, totalPages)
           /\ last.page = 1 => currentPage = 1

\* goToPage was called with a page beyond the last of several pages
GoToPageClampsWitness ==
    /\ last.op = "goToPage"
    /\ last.n > totalPages
    /\ totalPages > 1
    /\ last.page < totalPages
    /\ currentPage = totalPages

-----------------------------------------------------------------------------
(* Filter input *)

\* what the consumer is shown
Snapshot ==
    [pageRows |-> paginatedData, totalPages |-> totalPages,
     totalItems |-> totalItems, currentPage |-> safePage,
     pageSize |-> pageSize, sortState |-> sortConfig,
     filterQuery |-> filterText]

\* C14: a second setFilterQuery(q) right after a setFilterQuery(q) with the
\* same q leaves the snapshot (pageRows, totalPages, totalItems,
\* currentPage, pageSize, sortState, filterQuery) as the first call left it.
FilterChangeIdempotent ==
    [][ (last'.op = "setFilterQuery" /\ last'.again) => Snapshot' = Snapshot ]_vars

\* a query that leaves several pages was typed twice in a row while a sort
\* was active
FilterChangeIdempotentWitness ==
    /\ last.op = "setFilterQuery"
    /\ last.again
    /\ Trim(filterText) # <<>>
    /\ totalPages > 1
    /\ sortConfig.key # NoKey

-----------------------------------------------------------------------------
(* Page size *)

\* C15: a page size that is not positive is rejected, as the pageSize prop
\* and in setPageSize(n): pageSize >= 1 in every reachable state, and
\* totalPages is a finite positive integer.
PageSizePositive ==
    /\ pageSize >= 1
    /\ totalPages >= 1
    /\ totalPages < Infinity

-----------------------------------------------------------------------------
(* Sortable columns *)

\* C16: a click on the header of a column whose sortable flag is false or
\* absent changes nothing; only the header of a column with sortable = true
\* sorts.
SortOnlyOnSortableColumns ==
    last.op = "toggleSort" =>
        \E c \in 1..Len(columns) :
            columns[c].key = clicks.key /\ columns[c].sortable = "true"

-----------------------------------------------------------------------------
(* Snapshots *)

\* the rows, counts and page of the snapshot all derive from the stored
\* filterText, sortConfig, pageSize and currentPage
Derived ==
    /\ filteredData = filteredMemo[impl][<<data, columns>>][filterText]
    /\ sortedData = sortedMemo[impl][engine][sortConfig][filteredData]
    /\ totalItems = Len(filteredData)
    /\ totalPages = Max(1, Ceil(totalItems, pageSize))
    /\ safePage = Min(currentPage, totalPages)
    /\ paginatedData =
           Slice(sortedData, (safePage - 1) * pageSize, safePage * pageSize)

-----------------------------------------------------------------------------
(* Stored page *)

\* C18: clamping a stored page beyond the last page is read-only: the last
\* page is shown and the stored page stays; the stored page is written
\* only by goToPage, nextPage and previousPage, and by the reset to 1 of
\* setFilterQuery, toggleSort and setPageSize.
ClampOnReadOnly ==
    /\ [](currentPage > totalPages =>
              /\ safePage = totalPages
              /\ paginatedData =
                     Slice(sortedData, (totalPages - 1) * pageSize,
                           totalPages * pageSize))
    /\ [][ currentPage' # currentPage =>
              /\ last'.op \in {"goToPage", "nextPage", "previousPage",
                               "setFilterQuery", "toggleSort", "setPageSize"}
              /\ last'.op \in {"setFilterQuery", "toggleSort", "setPageSize"}
                     => currentPage' = 1 ]_vars

\* the parent has passed fewer rows while page 3 was shown: the stored
\* page is 3 and the last page is shown
ClampOnReadOnlyWitness ==
    /\ last.op = "rerender"
    /\ last.page = 3
    /\ currentPage = 3
    /\ totalPages < 3
    /\ safePage = totalPages

-----------------------------------------------------------------------------
(* Case of strings in the sort *)

\* C19: strings are compared case-folded by the sort: under an ascending
\* sort no string stands before a string whose case-folded form is less
\* than its own (rows "Bob", "amy" give "amy", "Bob"), and under a
\* descending sort none stands before one whose case-folded form is
\* greater.
SortIsCaseFolded ==
    sortConfig.key # NoKey =>
        \A i, j \in 1..Len(sortedData) :
            LET aValue == Row(sortedData[i])[sortConfig.key]
                bValue == Row(sortedData[j])[sortConfig.key]
            IN  ( i < j /\ aValue.t = "str" /\ bValue.t = "str" ) =>
                    IF sortConfig.direction = "asc"
                    THEN ~StringLess(ToLowerCase(bValue.s), ToLowerCase(aValue.s))
                    ELSE ~StringLess(ToLowerCase(aValue.s), ToLowerCase(bValue.s))

-----------------------------------------------------------------------------
(* No rows *)

\* C20: whenever totalItems is 0, by empty raw rows or by a filter no row
\* passes, for every pageSize and whatever page was shown before, the
\* snapshot has totalPages 1, currentPage 1 and no page rows, and the item
\* range the footer shows is 0 to 0 of 0 (v2 shows 'No results' in place
\* of a range).
EmptyShowsOnePage ==
    totalItems = 0 =>
        /\ totalPages = 1
        /\ safePage = 1
        /\ paginatedData = <<>>
        /\ showsRange => startItem = 0 /\ endItem = 0

-----------------------------------------------------------------------------
(* The item range of the footer *)

\* C21: in every reachable state with totalItems > 0 the footer shows the
\* range 'start to end of total' with start = (currentPage - 1) * pageSize
\* + 1 and end = min(currentPage * pageSize, totalItems), where
\* 1 <= start <= end <= totalItems and end - start + 1 is the number of
\* rows of the page (12 rows, pageSize 5, last page: 11 to 12 of 12).
ItemRangeMatchesPage ==
    totalItems > 0 =>
        /\ showsRange
        /\ startItem = (safePage - 1) * pageSize + 1
        /\ endItem = Min(safePage * pageSize, totalItems)
        /\ 1 <= startItem
        /\ startItem <= endItem
        /\ endItem <= totalItems
        /\ endItem - startItem + 1 = Len(paginatedData)

\* the last page of the 12 test rows at pageSize 5: 11 to 12 of 12
ItemRangeWitness ==
    /\ totalItems = 12
    /\ pageSize = 5
    /\ safePage = 3
    /\ startItem = 11
    /\ endItem = 12
    /\ Len(paginatedData) = 2

-----------------------------------------------------------------------------
(* The navigation controls *)

\* C22: in every reachable state Previous (and First) is disabled exactly
\* when the page shown is 1, and Next (and Last) is disabled exactly when
\* the page shown is totalPages; both are disabled whenever
\* totalItems <= pageSize.
NavDisabledAtEnds ==
    /\ ~hasPreviousPage <=> safePage = 1
    /\ ~hasNextPage <=> safePage = totalPages
    /\ totalItems <= pageSize => ~hasPreviousPage /\ ~hasNextPage

\* page 2 of the 12 test rows was shown and a page size of 20 is chosen:
\* all rows fit on one page and neither control is enabled
NavDisabledWitness ==
    /\ last.op = "setPageSize"
    /\ last.page = 2
    /\ totalItems = 12
    /\ pageSize = 20
    /\ ~hasPreviousPage
    /\ ~hasNextPage

-----------------------------------------------------------------------------
(* The sort stage reorders, and nothing else *)

\* how often row id occurs in rows
Count(rows, id) == Cardinality({i \in 1..Len(rows) : rows[i] = id})

\* C23: in every reachable state sortedRows is a permutation of
\* filteredRows (the same rows with the same multiplicities), so toggleSort
\* changes neither totalItems nor totalPages; and the sort does not reorder
\* the row collection it is given: rawRows, and filteredRows under an
\* unchanged filter, are the same before and after every operation.
SortIsPermutation ==
    /\ [](\A id \in Elements(filteredData) \cup Elements(sortedData) :
              Count(sortedData, id) = Count(filteredData, id))
    /\ [][ /\ last'.op = "toggleSort" =>
                  totalItems' = totalItems /\ totalPages' = totalPages
           /\ data' = data
           /\ filterText' = filterText => filteredData' = filteredData ]_vars

\* a header click has put the rows that pass a filter into another order
SortIsPermutationWitness ==
    /\ last.op = "toggleSort"
    /\ filterText # <<>>
    /\ Len(filteredData) > 1
    /\ Len(filteredData) < Len(data)
    /\ sortedData # filteredData

-----------------------------------------------------------------------------
(* The filter stage selects, and keeps the order *)

\* sub is full with some elements left out
RECURSIVE IsSubsequence(_, _)
IsSubsequence(sub, full) ==
    IF sub = <<>> THEN TRUE
    ELSE IF full = <<>> THEN FALSE
    ELSE IF Head(sub) = Head(full) THEN IsSubsequence(Tail(sub), Tail(full))
    ELSE IsSubsequence(sub, Tail(full))

\* the rows of the pages 1..totalPages, one page after the other
AllPages ==
    LET upTo[p \in 0..totalPages] ==
            IF p = 0 THEN <<>> ELSE upTo[p - 1] \o pageRowsAt(p)
    IN  upTo[totalPages]

\* C24: in every reachable state filteredRows is a subsequence of rawRows:
\* every filtered row is a raw row, no row occurs more often than in
\* rawRows, and filtered rows stand in the order they have in rawRows; with
\* no sort key active the rows of successive pages stand in raw order.
FilteredIsSubsequence ==
    /\ Elements(filteredData) \subseteq Elements(data)
    /\ \A id \in Elements(filteredData) :
           Count(filteredData, id) <= Count(data, id)
    /\ IsSubsequence(filteredData, data)
    /\ sortConfig.key = NoKey =>
           /\ IsSubsequence(AllPages, data)
           /\ IsSubsequence(paginatedData, data)

\* a filter has dropped rows from among the raw rows, no sort key is
\* active and the second page of what is left is shown
FilteredIsSubsequenceWitness ==
    /\ filterText # <<>>
    /\ sortConfig.key = NoKey
    /\ Len(filteredData) < Len(data)
    /\ \E i \in 1..Len(filteredData) :
           filteredData[i] # data[i]
    /\ safePage = 2
    /\ Len(paginatedData) > 0

-----------------------------------------------------------------------------
(* Page navigation *)

\* C25: page navigation (goToPage, nextPage, previousPage, First, Last)
\* changes only currentPage and pageRows: filterQuery, sortState, pageSize,
\* totalItems and totalPages are as before, and the page is sliced from the
\* same filtered and sorted rows as before.
NavigationChangesPageOnly ==
    [][ last'.op \in {"goToPage", "nextPage", "previousPage"} =>
            /\ filterText' = filterText
            /\ sortConfig' = sortConfig
            /\ pageSize' = pageSize
            /\ totalItems' = totalItems
            /\ totalPages' = totalPages
            /\ data' = data
            /\ filteredData' = filteredData
            /\ sortedData' = sortedData
            /\ paginatedData' =
                   Slice(sortedData, (safePage' - 1) * pageSize,
                         safePage' * pageSize) ]_vars

\* Next has moved from page 1 to page 2 of rows that are filtered and sorted
NavigationWitness ==
    /\ last.op = "nextPage"
    /\ last.page = 1
    /\ safePage = 2
    /\ filterText # <<>>
    /\ sortConfig.key # NoKey
    /\ Len(paginatedData) > 0

-----------------------------------------------------------------------------
(* The pages partition the sorted rows *)

\* C26: for every reachable filter, sort and pageSize state with
\* totalItems > 0, the rows of the pages 1..totalPages, one page after the
\* other, are exactly sortedRows (no row skipped, none repeated); every
\* page but the last holds pageSize rows and the last page holds between 1
\* and pageSize rows.
PagesPartitionSortedRows ==
    totalItems > 0 =>
        /\ paginatedData = pageRowsAt(safePage)
        /\ AllPages = sortedData
        /\ \A p \in 1..(totalPages - 1) : Len(pageRowsAt(p)) = pageSize
        /\ Len(pageRowsAt(totalPages)) \in 1..pageSize

\* the last of two pages of filtered and sorted rows is shown, and it is
\* not full
PagesPartitionWitness ==
    /\ filterText # <<>>
    /\ sortConfig.key # NoKey
    /\ totalPages = 2
    /\ safePage = 2
    /\ Len(paginatedData) \in 1..(pageSize - 1)

\* C27: from any reachable state with totalItems > 0 every nextPage raises
\* the page shown by exactly 1 until it is totalPages, which repeated
\* nextPage therefore reaches after exactly totalPages - currentPage calls,
\* and every further nextPage leaves the snapshot as it is; in the same way
\* every previousPage lowers the page shown by exactly 1 until it is 1, and
\* every further previousPage leaves the snapshot as it is.
NextAndPreviousStepByOne ==
    [][ /\ ( last'.op = "nextPage" /\ totalItems > 0 ) =>
               /\ safePage' = Min(safePage + 1, totalPages)
               /\ safePage = totalPages => Snapshot' = Snapshot
        /\ ( last'.op = "previousPage" /\ totalItems > 0 ) =>
               /\ safePage' = Max(safePage - 1, 1)
               /\ safePage = 1 => Snapshot' = Snapshot ]_vars

\* C28: an enabled Previous control has a visible effect: in every state
\* where the page shown is greater than 1, also when the stored page
\* exceeds totalPages because the rows were replaced by fewer rows while a
\* later page was shown, previousPage lowers the page shown by exactly 1.
PreviousAlwaysMoves ==
    [][ ( last'.op = "previousPage" /\ safePage > 1 ) =>
            safePage' = safePage - 1 ]_vars

-----------------------------------------------------------------------------
(* The numbered page buttons *)

\* C29: for every totalPages >= 1 and every page shown in 1..totalPages the
\* page numbers of getPageNumbers are a strictly increasing run of
\* consecutive integers of length min(5, totalPages), all within
\* 1..totalPages, with the page shown among them; so a click on an offered
\* page number never stores a page outside 1..totalPages.
PageNumbersAreWindow ==
    LET pages == getPageNumbers
    IN  /\ ( totalPages >= 1 /\ safePage \in 1..totalPages ) =>
               /\ Len(pages) = Min(5, totalPages)
               /\ \A i \in 1..(Len(pages) - 1) : pages[i + 1] = pages[i] + 1
               /\ \A i \in 1..Len(pages) : pages[i] \in 1..totalPages
               /\ \E i \in 1..Len(pages) : pages[i] = safePage
        /\ last.op = "goToPage" => currentPage \in 1..totalPages

\* page button 7 of 12 pages was clicked: the buttons 5 to 9 are shown
PageNumbersWitness ==
    /\ last.op = "goToPage"
    /\ last.n = 7
    /\ totalPages = 12
    /\ currentPage = 7
    /\ getPageNumbers = <<5, 6, 7, 8, 9>>

-----------------------------------------------------------------------------
(* The comparator *)

\* C30: the sort comparator is a consistent ordering for every pair of rows
\* a, b and both directions: compare(a, b) is 0 exactly when compare(b, a)
\* is 0, and otherwise the two have opposite signs; two rows that both lack
\* a value under the sort key, one null and one undefined, compare as
\* equal.
ComparatorIsConsistent ==
    \A a, b \in Elements(data) :
        \A key \in Keys, direction \in {"asc", "desc"} :
            LET cfg == [key |-> key, direction |-> direction]
                ab == Compare(a, b, cfg)
                ba == Compare(b, a, cfg)
            IN  /\ ab = 0 <=> ba = 0
                /\ Sign(ab) = -Sign(ba)
                /\ ( IsNullish(Row(a)[key]) /\ IsNullish(Row(b)[key]) ) =>
                       ab = 0

=============================================================================
